---- MODULE Spec2Model ----
(***************************************************************************)
(* Model of the maintenance scripts of thunder-text:                       *)
(*   fix-orphans.py       fix_file (the orphan-block remover) and main     *)
(*   scripts/fix-layouts.py  secure_write_file and the page loop of main   *)
(* A line of text is a sequence of one-character strings, so that strip,   *)
(* rstrip, endswith, the substring test and the regular expression are     *)
(* computed character by character as Python computes them.                *)
(* Cursors (i, j, prev_idx) are 0-based as in the source; lines[k] of the  *)
(* source is lines[k + 1] here.                                            *)
(***************************************************************************)
EXTENDS Integers, Sequences, FiniteSets, TLC

VARIABLES
    \* ---- fix-orphans.py, fix_file ----
    file,          \* content of the file on disk: a sequence of lines
    lines,         \* f.readlines()
    i,             \* cursor of the outer walk
    fixed_lines,   \* output accumulated so far
    fixes,         \* fix counter
    pc,            \* "read" | "walk" | "done"
    ret,           \* value returned by fix_file
    wrote,         \* the file was opened for writing in this run
    run,           \* number of the current run of fix_file on the file
    file0,         \* history: content before the current run
    blocks,        \* history: <<i, j>> of every block skipped in this run
    \* ---- fix-orphans.py, main ----
    fs,            \* path -> Absent or OnDisk(lines)
    fidx,          \* position in error_files (0-based)
    total_fixes,   \* running total
    printed,       \* <<total>> once the total is printed, <<>> before
    oplog,         \* history: reads, writes and "not found" reports, in order
    returned,      \* history: the fix counts returned by fix_file, in order
    \* ---- scripts/fix-layouts.py ----
    target,        \* page -> Absent or OnDisk(content)
    temp,          \* the temporary file: Absent or OnDisk(content)
    temp_path,     \* temp_path is not None
    wpc,           \* position inside main / secure_write_file
    content,       \* content being written
    pidx,          \* position in PAGES (0-based)
    updated,       \* pages counted as updated
    result,        \* "true" / "false" returned by secure_write_file, or NoValue
    unsafe,        \* pages whose path safe_resolve_path rejects
    before,        \* history: target content when secure_write_file was called
    failed_at      \* history: the step at which secure_write_file failed

fixVars == <<file, lines, i, fixed_lines, fixes, pc, ret, wrote, run, file0, blocks>>
mainVars == <<fs, fidx, total_fixes, printed, oplog, returned>>
layoutVars == <<target, temp, temp_path, wpc, content, pidx, updated, result, unsafe,
                before, failed_at>>
vars == <<fixVars, mainVars, layoutVars>>

NoValue == "none"

\* a path on disk: absent, or a file holding data
Absent == [exists |-> FALSE, data |-> <<>>]

OnDisk(d) == [exists |-> TRUE, data |-> d]

(***************************************************************************)
(* Characters and the Python string methods the scripts use.               *)
(***************************************************************************)
Whitespace == {" ", "\t", "\n", "\r", "\f"}

WordChars ==
    {"a","b","c","d","e","f","g","h","i","j","k","l","m","n","o","p","q","r",
     "s","t","u","v","w","x","y","z","0","1","2","3","4","5","6","7","8","9","_"}

IsSpace(c) == c \in Whitespace

IsWord(c) == c \in WordChars

\* index of the first / last character that is not whitespace (Len + 1 / 0 if none)
FirstNonSpace(s) ==
    IF \A k \in 1..Len(s) : IsSpace(s[k]) THEN Len(s) + 1
    ELSE CHOOSE k \in 1..Len(s) : ~IsSpace(s[k]) /\ \A m \in 1..(k - 1) : IsSpace(s[m])

LastNonSpace(s) ==
    IF \A k \in 1..Len(s) : IsSpace(s[k]) THEN 0
    ELSE CHOOSE k \in 1..Len(s) : ~IsSpace(s[k]) /\ \A m \in (k + 1)..Len(s) : IsSpace(s[m])

strip(s) == SubSeq(s, FirstNonSpace(s), LastNonSpace(s))

rstrip(s) == SubSeq(s, 1, LastNonSpace(s))

endswith(s, suffix) ==
    /\ Len(s) >= Len(suffix)
    /\ SubSeq(s, Len(s) - Len(suffix) + 1, Len(s)) = suffix

contains(s, sub) ==
    \E k \in 1..(Len(s) - Len(sub) + 1) : SubSeq(s, k, k + Len(sub) - 1) = sub

\* re.match(r'^\s+\w+:', s): a whitespace characters, then b word characters, then ':'
MatchProperty(s) ==
    \E a \in 1..Len(s) : \E b \in 1..Len(s) :
        /\ a + b + 1 <= Len(s)
        /\ \A k \in 1..a : IsSpace(s[k])
        /\ \A k \in (a + 1)..(a + b) : IsWord(s[k])
        /\ s[a + b + 1] = ":"

ConsoleLog == <<"c","o","n","s","o","l","e",".","l","o","g">>

ClosingTokens == { <<"}", ")", ";">>, <<"}">> }

SafetyLimit == 50

(***************************************************************************)
(* fix_file: the tests of one iteration of the walk.                       *)
(***************************************************************************)
\* the test as the comment above it describes it: on the line as read
IsCandidateRaw(line) ==
    MatchProperty(line) /\ endswith(rstrip(line), <<",">>)

\* re.match(r'^\s+\w+:', line.strip()) and line.rstrip().endswith(',')
IsCandidate(line) ==
    MatchProperty(strip(line)) /\ endswith(rstrip(line), <<",">>)

IsClosing(line) == strip(line) \in ClosingTokens

\* the look-ahead loop, entered at its head with found_closing = False
RECURSIVE ScanFrom(_, _, _)
ScanFrom(ls, i0, j) ==
    IF j >= Len(ls) THEN [j |-> j, found_closing |-> FALSE]
    ELSE IF IsClosing(ls[j + 1]) THEN [j |-> j + 1, found_closing |-> TRUE]
    ELSE IF (j + 1) - i0 > SafetyLimit THEN [j |-> j + 1, found_closing |-> FALSE]
    ELSE ScanFrom(ls, i0, j + 1)

LookAhead(ls, i0) == ScanFrom(ls, i0, i0)

\* prev_idx after the backward loop over blank lines; -1 when there is none
PrevIdx(ls, i0) ==
    IF \E k \in 0..(i0 - 1) : strip(ls[k + 1]) # <<>>
    THEN CHOOSE k \in 0..(i0 - 1) :
            /\ strip(ls[k + 1]) # <<>>
            /\ \A m \in (k + 1)..(i0 - 1) : strip(ls[m + 1]) = <<>>
    ELSE -1

is_valid(prev_line) ==
    \/ endswith(prev_line, <<"{">>)
    \/ endswith(prev_line, <<"(", "{">>)
    \/ contains(prev_line, ConsoleLog)
    \/ endswith(prev_line, <<":", " ", "{">>)

\* the decision as section 4.1 of the specification describes it: the shape
\* is tested on the line as read, and a block at the start of the file is
\* orphaned by default
SkipsBlockAsSpecified(ls, i0) ==
    /\ IsCandidateRaw(ls[i0 + 1])
    /\ LookAhead(ls, i0).found_closing
    /\ (PrevIdx(ls, i0) >= 0 => ~is_valid(strip(ls[PrevIdx(ls, i0) + 1])))

\* the iteration takes the "skip the entire block" branch
SkipsBlock(ls, i0) ==
    /\ IsCandidate(ls[i0 + 1])
    /\ PrevIdx(ls, i0) >= 0
    /\ LookAhead(ls, i0).found_closing
    /\ ~is_valid(strip(ls[PrevIdx(ls, i0) + 1]))

\* a kept line that is appended stripped instead of as read
KeepLineStripped(out, line) == Append(out, strip(line))

\* fixed_lines.append(line)
KeepLine(out, line) == Append(out, line)

\* one iteration of the outer while loop
WalkStep(ls, i0, out, n) ==
    IF SkipsBlock(ls, i0)
    THEN [i |-> LookAhead(ls, i0).j, fixed_lines |-> out, fixes |-> n + 1]
    ELSE [i |-> i0 + 1, fixed_lines |-> KeepLine(out, ls[i0 + 1]), fixes |-> n]

\* the file is rewritten whatever the counter
ShouldWriteAlways(n) == n >= 0

\* if fixes > 0
ShouldWrite(n) == n > 0

RECURSIVE Walk(_, _, _, _)
Walk(ls, i0, out, n) ==
    IF i0 < Len(ls)
    THEN LET s == WalkStep(ls, i0, out, n) IN Walk(ls, s.i, s.fixed_lines, s.fixes)
    ELSE [fixed_lines |-> out, fixes |-> n]

\* fix_file as a whole: what it returns and what it leaves on disk
fix_file(data) ==
    LET w == Walk(data, 0, <<>>, 0) IN
    [ret |-> IF ShouldWrite(w.fixes) THEN w.fixes ELSE 0,
     wrote |-> ShouldWrite(w.fixes),
     file |-> IF ShouldWrite(w.fixes) THEN w.fixed_lines ELSE data]

(***************************************************************************)
(* Input files.                                                            *)
(***************************************************************************)
LFunc  == <<"f","u","n","c","t","i","o","n"," ","f","(",")"," ","{","\n">>
LValue == <<" "," ","v","a","l","u","e",":"," ","4","2",",","\n">>
LOther == <<" "," ","o","t","h","e","r",":"," ","1",",","\n">>
LClose == <<"}",")",";","\n">>
LBrace == <<" "," ","}","\n">>
LCall  == <<"s","o","m","e","t","h","i","n","g","(",")",";","\n">>
LBlank == <<"\n">>
LLog   == <<"/","/"," ","c","o","n","s","o","l","e",".","l","o","g","\n">>
LOpts  == <<" "," ","o","p","t","s",":"," ","{","\n">>
LCloseEof == <<"}",")",";">>

Alphabet == {LFunc, LValue, LOther, LClose, LCall, LBlank, LLog}

MaxLen == 3

FillSlack == 1

RECURSIVE Repeat(_, _)
Repeat(line, n) == IF n <= 0 THEN <<>> ELSE <<line>> \o Repeat(line, n - 1)

SeqsUpTo(S, n) == UNION { [1..m -> S] : m \in 0..n }

\* the end-to-end example of section 8, each line with its newline
Example == <<LFunc, LValue, LClose, LOther, LClose>>

ExampleExpected == <<LFunc, LValue, LClose>>

\* files long enough for the look-ahead window to end before the closing token
LongFiles ==
    { pre \o <<LValue>> \o Repeat(fill, n) \o suf :
        pre \in { <<>>, <<LCall>>, <<LFunc>> },
        fill \in { LCall },
        n \in (SafetyLimit - 1 - FillSlack)..(SafetyLimit - 1 + FillSlack),
        suf \in { <<LClose>>, <<LOther, LClose, LClose>> } }

SpecialFiles ==
    { Example,
      <<LFunc, LValue, LClose, LOther, LCloseEof>>,
      <<LCall, LBlank, LBlank, LValue, LOther, LBrace>>,
      <<LOpts, LValue, LOther, LBrace, LClose>>,
      <<LBlank, LBlank, LValue, LOther, LClose>> }

InputFiles == SeqsUpTo(Alphabet, MaxLen) \cup SpecialFiles \cup LongFiles

Runs == 2

(***************************************************************************)
(* Specification of fix_file, run Runs times in succession on one file.    *)
(***************************************************************************)
MainIdle ==
    /\ fs = <<>> /\ fidx = 0 /\ total_fixes = 0 /\ printed = <<>>
    /\ oplog = <<>> /\ returned = <<>>

LayoutIdle ==
    /\ target = <<>> /\ temp = Absent /\ temp_path = FALSE /\ wpc = "idle"
    /\ content = <<>> /\ pidx = 0 /\ updated = 0 /\ result = NoValue
    /\ unsafe = {} /\ before = <<>> /\ failed_at = NoValue

FixIdle ==
    /\ file = <<>> /\ lines = <<>> /\ i = 0 /\ fixed_lines = <<>> /\ fixes = 0
    /\ pc = "idle" /\ ret = 0 /\ wrote = FALSE /\ run = 0 /\ file0 = <<>>
    /\ blocks = <<>>

Init ==
    /\ file \in InputFiles
    /\ file0 = file
    /\ lines = <<>> /\ i = 0 /\ fixed_lines = <<>> /\ fixes = 0
    /\ pc = "read" /\ ret = 0 /\ wrote = FALSE /\ run = 1
    /\ blocks = <<>>
    /\ MainIdle
    /\ LayoutIdle

\* with open(filepath, 'r') as f: lines = f.readlines(); i = 0; ...
ReadFile ==
    /\ pc = "read"
    /\ lines' = file
    /\ i' = 0 /\ fixed_lines' = <<>> /\ fixes' = 0
    /\ blocks' = <<>>
    /\ wrote' = FALSE
    /\ file0' = file
    /\ pc' = "walk"
    /\ UNCHANGED <<file, ret, run, mainVars, layoutVars>>

\* one iteration of while i < len(lines)
Step ==
    /\ pc = "walk"
    /\ i < Len(lines)
    /\ LET s == WalkStep(lines, i, fixed_lines, fixes) IN
        /\ i' = s.i
        /\ fixed_lines' = s.fixed_lines
        /\ fixes' = s.fixes
        /\ blocks' = IF s.fixes # fixes THEN Append(blocks, <<i, s.i>>) ELSE blocks
    /\ UNCHANGED <<file, lines, pc, ret, wrote, run, file0, mainVars, layoutVars>>

\* if fixes > 0: write fixed_lines, return fixes; else return 0
Finish ==
    /\ pc = "walk"
    /\ i >= Len(lines)
    /\ IF ShouldWrite(fixes)
       THEN file' = fixed_lines /\ wrote' = TRUE /\ ret' = fixes
       ELSE file' = file /\ wrote' = FALSE /\ ret' = 0
    /\ pc' = "done"
    /\ UNCHANGED <<lines, i, fixed_lines, fixes, run, file0, blocks, mainVars, layoutVars>>

\* the script is run again on the file the previous run left
RunAgain ==
    /\ pc = "done"
    /\ run < Runs
    /\ run' = run + 1
    /\ pc' = "read"
    /\ UNCHANGED <<file, lines, i, fixed_lines, fixes, ret, wrote, file0, blocks,
                   mainVars, layoutVars>>

Next == ReadFile \/ Step \/ Finish \/ RunAgain

Spec == Init /\ [][Next]_vars

(***************************************************************************)
(* Vocabulary of the properties of fix_file.                               *)
(***************************************************************************)
\* the shape section 4.1 names: leading whitespace, identifier, colon, content, trailing comma
PropertyShaped(line) ==
    MatchProperty(line) /\ endswith(rstrip(line), <<",">>)

\* a closing token among the w lines from position i0 on, that line included
CloserWithin(ls, i0, w) ==
    \E k \in i0..(i0 + w - 1) : k < Len(ls) /\ IsClosing(ls[k + 1])

HasPrev(ls, i0) == PrevIdx(ls, i0) >= 0

PrevLine(ls, i0) == strip(ls[PrevIdx(ls, i0) + 1])

AtLine == pc = "walk" /\ i < Len(lines)

\* the iteration copies the current line and moves on by one
KeptThisLine ==
    /\ fixed_lines' = Append(fixed_lines, lines[i + 1])
    /\ fixes' = fixes
    /\ i' = i + 1

\* the iteration drops the block and resumes right after its terminator
DroppedBlock ==
    /\ fixed_lines' = fixed_lines
    /\ fixes' = fixes + 1
    /\ i' = LookAhead(lines, i).j

SkippedIdx == { k \in 0..(Len(lines) - 1) : \E n \in 1..Len(blocks) : blocks[n][1] <= k /\ k < blocks[n][2] }

RECURSIVE Without(_, _, _)
Without(ls, n, S) ==
    IF n = 0 THEN <<>>
    ELSE IF (n - 1) \in S THEN Without(ls, n - 1, S)
    ELSE Append(Without(ls, n - 1, S), ls[n])

\* seq occurs in out as a contiguous run
OccursIn(seq, out) ==
    \E k \in 0..(Len(out) - Len(seq)) : SubSeq(out, k + 1, k + Len(seq)) = seq

\* position s starts a candidate block whose terminator is in the window
BlockAt(ls, s) == PropertyShaped(ls[s + 1]) /\ LookAhead(ls, s).found_closing

(***************************************************************************)
(* C1. An orphaned block (property-shaped first line, terminator in the    *)
(* window, preceding non-blank line that is not an opener and has no       *)
(* console.log) is dropped whole, the counter goes up by one and the walk  *)
(* resumes after the terminator; the section 8 example ends with three     *)
(* lines and one fix.                                                      *)
(***************************************************************************)
C1_ExampleResult ==
    (pc = "done" /\ run = 1 /\ file0 = Example) =>
        (fixed_lines = ExampleExpected /\ fixes = 1 /\ file = ExampleExpected)

C1_OrphanBlockDropped ==
    /\ []C1_ExampleResult
    /\ [][(AtLine /\ BlockAt(lines, i) /\ HasPrev(lines, i)
            /\ ~is_valid(PrevLine(lines, i))) => DroppedBlock]_vars

(***************************************************************************)
(* C2. A candidate block whose preceding non-blank line is an opener or    *)
(* contains console.log is preserved: all its lines, first line through    *)
(* terminator, are in the output in order and no fix is counted inside it. *)
(***************************************************************************)
ValidBlockAt(ls, s) ==
    BlockAt(ls, s) /\ HasPrev(ls, s) /\ is_valid(PrevLine(ls, s))

C3_DroppedOnlyWithCloser ==
    \A n \in 1..Len(blocks) : CloserWithin(lines, blocks[n][1], SafetyLimit)

C5_OutputIsPrefixWithoutBlocks ==
    pc \in {"walk", "done"} =>
        /\ i <= Len(lines)
        /\ \A k \in SkippedIdx : k < i
        /\ fixed_lines = Without(lines, i, SkippedIdx)
        /\ Len(fixed_lines) + Cardinality(SkippedIdx) = i

C5_Witness ==
    /\ pc = "walk" /\ i >= 3 /\ i < Len(lines)
    /\ PropertyShaped(lines[2])
    /\ Len(fixed_lines) = 3

(***************************************************************************)
(* C6. The file is opened for writing iff the counter is positive at the   *)
(* end of the walk; a run with zero fixes, and any run on a file without a *)
(* property-shaped line, returns 0 and leaves the file as it was.          *)
(***************************************************************************)
C6_WriteOnlyWhenFixed ==
    pc = "done" =>
        /\ wrote <=> fixes > 0
        /\ fixes = 0 => (ret = 0 /\ file = file0)
        /\ (\A k \in 1..Len(lines) : ~PropertyShaped(lines[k])) => (ret = 0 /\ file = file0)

C6_Witness ==
    /\ pc = "done" /\ fixes = 0 /\ ~wrote
    /\ Len(lines) >= 2
    /\ \A k \in 1..Len(lines) : ~PropertyShaped(lines[k])

(***************************************************************************)
(* C7. A candidate block at the start of the file (nothing but blank lines *)
(* before its first line).  As claimed: the block is dropped and counted.  *)
(* As the code has it: the first line is kept and nothing is counted.      *)
(***************************************************************************)
AtStartBlock == AtLine /\ BlockAt(lines, i) /\ ~HasPrev(lines, i)

C7_StartBlockDropped == [][AtStartBlock => DroppedBlock]_vars

C7_StartBlockKept ==
    /\ [](pc = "done" /\ (\E s \in 0..(Len(lines) - 1) : BlockAt(lines, s) /\ ~HasPrev(lines, s))
            => \A n \in 1..Len(blocks) : HasPrev(lines, blocks[n][1]))
    /\ [][AtStartBlock => KeptThisLine]_vars

C7_Witness ==
    /\ pc = "walk" /\ i >= 1
    /\ BlockAt(lines, i - 1) /\ ~HasPrev(lines, i - 1)
    /\ Len(fixed_lines) = i /\ fixed_lines[i] = lines[i]
    /\ fixes = 0

NumFiles == 3

FileContents == { Example, <<LCall, LValue, LClose>>, <<LFunc, LBlank>>, <<>> }

RECURSIVE Sum(_)
Sum(seq) == IF seq = <<>> THEN 0 ELSE seq[1] + Sum(Tail(seq))

\* a missing path that is taken to exist
ExistsAlways(disk, path) == TRUE

\* full_path.exists()
Exists(disk, path) == disk[path].exists

InitMain ==
    /\ fs \in [1..NumFiles -> {Absent} \cup { OnDisk(d) : d \in FileContents }]
    /\ fidx = 0 /\ total_fixes = 0 /\ printed = <<>>
    /\ oplog = <<>> /\ returned = <<>>
    /\ FixIdle
    /\ LayoutIdle

\* the branch "Checking ...": fixes = fix_file(full_path); total_fixes += fixes.
\* open() of a path that is not there raises, which ends the run.
CheckFile ==
    /\ fidx < NumFiles
    /\ Exists(fs, fidx + 1)
    /\ IF ~fs[fidx + 1].exists
       THEN /\ oplog' = Append(oplog, <<"read", fidx + 1>>)
            /\ fidx' = NumFiles + 1
            /\ UNCHANGED <<fs, total_fixes, returned>>
       ELSE LET r == fix_file(fs[fidx + 1].data) IN
            /\ oplog' = oplog \o <<<<"read", fidx + 1>>>>
                              \o (IF r.wrote THEN <<<<"write", fidx + 1>>>> ELSE <<>>)
            /\ fs' = [fs EXCEPT ![fidx + 1] = OnDisk(r.file)]
            /\ total_fixes' = total_fixes + r.ret
            /\ returned' = Append(returned, r.ret)
            /\ fidx' = fidx + 1
    /\ UNCHANGED <<printed, fixVars, layoutVars>>

\* the branch "File not found"
NotFound ==
    /\ fidx < NumFiles
    /\ ~Exists(fs, fidx + 1)
    /\ oplog' = Append(oplog, <<"notfound", fidx + 1>>)
    /\ fidx' = fidx + 1
    /\ UNCHANGED <<fs, total_fixes, printed, returned, fixVars, layoutVars>>

\* print(f"Total orphaned blocks fixed: {total_fixes}")
PrintTotal ==
    /\ printed = <<>>
    /\ fidx = NumFiles
    /\ printed' = <<total_fixes>>
    /\ UNCHANGED <<fs, fidx, total_fixes, oplog, returned, fixVars, layoutVars>>

NextMain == CheckFile \/ NotFound \/ PrintTotal

SpecMain == InitMain /\ [][NextMain]_vars

(***************************************************************************)
(* C8. main handles the whitelist in list order, one file at a time; a     *)
(* path that does not exist is reported and skipped with no read or write  *)
(* of it, the later entries are still handled, and the total printed is    *)
(* the sum of the counts returned for the files that existed.              *)
(***************************************************************************)
OpsOf(path) == { n \in 1..Len(oplog) : oplog[n][2] = path }

C8_MissingFileSkipped ==
    \* list order, one file fully before the next
    /\ \A m, n \in 1..Len(oplog) : m < n => oplog[m][2] <= oplog[n][2]
    /\ \A n \in 1..Len(oplog) : oplog[n][2] <= fidx
    /\ fidx <= NumFiles
    /\ \A path \in 1..NumFiles :
          IF ~fs[path].exists
          THEN \* reported once it is reached, never read or written
               /\ \A n \in OpsOf(path) : oplog[n][1] = "notfound"
               /\ path <= fidx => Cardinality(OpsOf(path)) = 1
          ELSE \* handled once it is reached
               /\ path <= fidx => \E n \in OpsOf(path) : oplog[n][1] = "read"
               /\ \A n \in OpsOf(path) : oplog[n][1] \in {"read", "write"}
    /\ printed # <<>> =>
          /\ fidx = NumFiles
          /\ Len(returned) = Cardinality({ path \in 1..NumFiles : fs[path].exists })
          /\ printed = <<Sum(returned)>>

\* the run ended, and a missing entry came before one that exists
C8_Witness ==
    /\ printed # <<>>
    /\ \E a, b \in 1..NumFiles :
          /\ a < b /\ ~fs[a].exists /\ fs[b].exists
          /\ \E n \in OpsOf(b) : oplog[n][1] = "read"

(***************************************************************************)
(* scripts/fix-layouts.py: the page loop of main and secure_write_file.    *)
(* A page's content is a sequence of chunks.  The text that add_import and *)
(* replace_container_wrapper produce is some content of Contents.          *)
(* shutil.move(temp_path, file_path) is os.rename, and when that raises    *)
(* OSError (destination exists on Windows, sticky directory, bind-mounted  *)
(* file), copy2 of the temp file onto the target followed by os.unlink.    *)
(***************************************************************************)
NumPages == 2

Contents == { <<"a", "b">>, <<"b", "a">> }

Outcome == BOOLEAN

Page == pidx + 1

InitLayout ==
    /\ target \in [1..NumPages -> {Absent} \cup { OnDisk(d) : d \in Contents }]
    /\ unsafe \in SUBSET (1..NumPages)
    /\ temp = Absent /\ temp_path = FALSE
    /\ wpc = "loop" /\ content = <<>> /\ pidx = 0 /\ updated = 0
    /\ result = NoValue /\ before = <<>> /\ failed_at = NoValue
    /\ FixIdle
    /\ MainIdle

Raise(step) == wpc' = "except" /\ failed_at' = step

\* safe_resolve_path returned None, or os.path.exists is false: continue
SkipPage ==
    /\ wpc = "loop" /\ pidx < NumPages
    /\ Page \in unsafe \/ ~target[Page].exists
    /\ pidx' = pidx + 1
    /\ UNCHANGED <<target, temp, temp_path, wpc, content, updated, result, unsafe,
                   before, failed_at, fixVars, mainVars>>

\* read, add_import, replace_container_wrapper, call of secure_write_file
BeginPage ==
    /\ wpc = "loop" /\ pidx < NumPages
    /\ Page \notin unsafe /\ target[Page].exists
    /\ content' \in Contents
    /\ before' = target[Page].data
    /\ temp' = Absent /\ temp_path' = FALSE
    /\ result' = NoValue /\ failed_at' = NoValue
    /\ wpc' = "mkstemp"
    /\ UNCHANGED <<target, pidx, updated, unsafe, fixVars, mainVars>>

\* tempfile.mkstemp(dir=target_dir, ...)
Mkstemp ==
    /\ wpc = "mkstemp"
    /\ \E ok \in Outcome :
          IF ok THEN temp' = OnDisk(<<>>) /\ temp_path' = TRUE /\ wpc' = "write"
                     /\ UNCHANGED failed_at
          ELSE Raise("mkstemp") /\ UNCHANGED <<temp, temp_path>>
    /\ UNCHANGED <<target, content, pidx, updated, result, unsafe, before, fixVars, mainVars>>

\* f.write(content); f.flush(): a failure leaves any prefix in the temp file
WriteTemp ==
    /\ wpc = "write"
    /\ \E n \in 0..Len(content) :
          /\ temp' = OnDisk(SubSeq(content, 1, n))
          /\ \/ n = Len(content) /\ wpc' = "fsync" /\ UNCHANGED failed_at
             \/ Raise("write")
    /\ UNCHANGED <<target, temp_path, content, pidx, updated, result, unsafe, before,
                   fixVars, mainVars>>

\* os.fsync(f.fileno())
Fsync ==
    /\ wpc = "fsync"
    /\ \E ok \in Outcome :
          IF ok THEN wpc' = "chmod" /\ UNCHANGED failed_at ELSE Raise("fsync")
    /\ UNCHANGED <<target, temp, temp_path, content, pidx, updated, result, unsafe,
                   before, fixVars, mainVars>>

\* os.chmod(temp_path, SECURE_FILE_PERMISSIONS)
Chmod ==
    /\ wpc = "chmod"
    /\ \E ok \in Outcome :
          IF ok THEN wpc' = "move" /\ UNCHANGED failed_at ELSE Raise("chmod")
    /\ UNCHANGED <<target, temp, temp_path, content, pidx, updated, result, unsafe,
                   before, fixVars, mainVars>>

\* shutil.move: os.rename succeeds (then temp_path = None, return True),
\* or raises OSError and the copy is attempted
Move ==
    /\ wpc = "move"
    /\ \E renamed \in Outcome :
          IF renamed
          THEN /\ target' = [target EXCEPT ![Page] = temp]
               /\ temp' = Absent /\ temp_path' = FALSE
               /\ result' = "true"
               /\ wpc' = "finally"
          ELSE /\ wpc' = "copy_open"
               /\ UNCHANGED <<target, temp, temp_path, result>>
    /\ UNCHANGED <<content, pidx, updated, unsafe, before, failed_at, fixVars, mainVars>>

\* shutil.move, copy2: the target is opened for writing, which truncates it
CopyOpen ==
    /\ wpc = "copy_open"
    /\ \E ok \in Outcome :
          IF ok THEN /\ target' = [target EXCEPT ![Page] = OnDisk(<<>>)]
                     /\ wpc' = "copy_write" /\ UNCHANGED failed_at
          ELSE Raise("move") /\ UNCHANGED target
    /\ UNCHANGED <<temp, temp_path, content, pidx, updated, result, unsafe, before,
                   fixVars, mainVars>>

\* shutil.move, copy2: the next chunk of the temp file reaches the target
CopyWrite ==
    /\ wpc = "copy_write"
    /\ \E ok \in Outcome :
          IF ok /\ Len(target[Page].data) < Len(temp.data)
          THEN /\ target' = [target EXCEPT ![Page].data = Append(@, temp.data[Len(@) + 1])]
               /\ UNCHANGED <<wpc, failed_at>>
          ELSE IF ok
          THEN wpc' = "copy_done" /\ UNCHANGED <<target, failed_at>>
          ELSE Raise("move") /\ UNCHANGED target
    /\ UNCHANGED <<temp, temp_path, content, pidx, updated, result, unsafe, before,
                   fixVars, mainVars>>

\* shutil.move: os.unlink(src) after the copy, then temp_path = None, return True
CopyDone ==
    /\ wpc = "copy_done"
    /\ \E ok \in Outcome :
          IF ok THEN /\ temp' = Absent /\ temp_path' = FALSE /\ result' = "true"
                     /\ wpc' = "finally" /\ UNCHANGED failed_at
          ELSE Raise("move") /\ UNCHANGED <<temp, temp_path, result>>
    /\ UNCHANGED <<target, content, pidx, updated, unsafe, before, fixVars, mainVars>>

\* except Exception as e: print(...); return False
Except ==
    /\ wpc = "except"
    /\ result' = "false"
    /\ wpc' = "finally"
    /\ UNCHANGED <<target, temp, temp_path, content, pidx, updated, unsafe, before,
                   failed_at, fixVars, mainVars>>

\* finally: remove the temp file if temp_path is set and the file exists
Finally ==
    /\ wpc = "finally"
    /\ temp' = IF temp_path /\ temp.exists THEN Absent ELSE temp
    /\ wpc' = "returned"
    /\ UNCHANGED <<target, temp_path, content, pidx, updated, result, unsafe, before,
                   failed_at, fixVars, mainVars>>

\* if secure_write_file(...): updated += 1; then the next page
AfterWrite ==
    /\ wpc = "returned"
    /\ updated' = IF result = "true" THEN updated + 1 ELSE updated
    /\ pidx' = pidx + 1
    /\ wpc' = "loop"
    /\ UNCHANGED <<target, temp, temp_path, content, result, unsafe, before, failed_at,
                   fixVars, mainVars>>

NextLayout ==
    \/ SkipPage \/ BeginPage \/ Mkstemp \/ WriteTemp \/ Fsync \/ Chmod \/ Move
    \/ CopyOpen \/ CopyWrite \/ CopyDone \/ Except \/ Finally \/ AfterWrite

SpecLayout == InitLayout /\ [][NextLayout]_vars

(***************************************************************************)
(* C9. When secure_write_file fails at any step it returns False with the  *)
(* target exactly as before the call, the target is never visible partly   *)
(* written, and main does not count the page and goes on to the next.      *)
(***************************************************************************)
InWrite == wpc \notin {"idle", "loop"}

C9_NoPartialTarget ==
    InWrite => (target[Page] = OnDisk(before) \/ target[Page] = OnDisk(content))

C9_FailureLeavesTarget ==
    (wpc \in {"finally", "returned"} /\ result = "false") => target[Page] = OnDisk(before)

C9_FailedWriteIsHarmless ==
    /\ []C9_NoPartialTarget
    /\ []C9_FailureLeavesTarget
    /\ [][(wpc = "returned" /\ result = "false")
            => (updated' = updated /\ pidx' = pidx + 1 /\ wpc' = "loop")]_vars

====
